---- MODULE Spec2Model ----
(***************************************************************************)
(* Model of gpu_temp_reader (src/src/Main.rs): the three nvidia-smi        *)
(* queries, the poll-render loop of main, the terminal input queue that    *)
(* event::poll / event::read consume, and the process exit paths.          *)
(*                                                                         *)
(* Text is modelled as sequences of one-character strings where the code   *)
(* inspects it (tool stdout, trim, parse) and as TLA+ strings where the    *)
(* code only concatenates it (format!).  An f32 is modelled as an integer  *)
(* count of tenths; the tool outputs drawn below have at most one          *)
(* fractional digit, so the representation is exact for them.              *)
(***************************************************************************)
EXTENDS Integers, Sequences, FiniteSets, TLC

VARIABLES
    pc,         \* position of main
    raw,        \* terminal raw input mode currently enabled
    rawEver,    \* enable_raw_mode has succeeded in this run
    queue,      \* terminal input events not yet read
    temp,       \* Result<f32, String> of get_gpu_temperature of this cycle
    load,       \* `load` local: [set, val]
    model,      \* `model` local: [set, val]
    printed,    \* last line written to stdout: [kind, lead, text, style]
    log,        \* records logged in the current cycle
    trace,      \* steps performed in the current cycle, in order
    runs,       \* tool runs of the current cycle, by metric
    prevKind,   \* kind of line rendered by the previous cycle
    exitStatus, \* "running" | "success" | "io_error" | "panic"
    exitCause   \* which call ended the process

vars == <<pc, raw, rawEver, queue, temp, load, model, printed, log, trace,
          runs, prevKind, exitStatus, exitCause>>

----------------------------------------------------------------------------
(* Bounds *)

MaxQueue == 2

----------------------------------------------------------------------------
(* Text helpers *)

Whitespace == {" ", "\n", "\t", "\r"}

Digits == {"0", "1", "2", "3", "4", "5", "6", "7", "8", "9"}

DigitVal(c) ==
    CASE c = "0" -> 0 [] c = "1" -> 1 [] c = "2" -> 2 [] c = "3" -> 3
      [] c = "4" -> 4 [] c = "5" -> 5 [] c = "6" -> 6 [] c = "7" -> 7
      [] c = "8" -> 8 [] c = "9" -> 9

RECURSIVE TrimStart(_)
TrimStart(s) ==
    IF s # <<>> /\ Head(s) \in Whitespace THEN TrimStart(Tail(s)) ELSE s

RECURSIVE TrimEnd(_)
TrimEnd(s) ==
    IF s # <<>> /\ s[Len(s)] \in Whitespace
    THEN TrimEnd(SubSeq(s, 1, Len(s) - 1))
    ELSE s

\* str::trim
Trim(s) == TrimEnd(TrimStart(s))

RECURSIVE ToStr(_)
\* the characters of s as one string
ToStr(s) == IF s = <<>> THEN "" ELSE Head(s) \o ToStr(Tail(s))

RECURSIVE DigitsValue(_)
DigitsValue(s) ==
    IF s = <<>> THEN 0 ELSE 10 * DigitsValue(SubSeq(s, 1, Len(s) - 1)) + DigitVal(s[Len(s)])

AllDigits(s) == \A i \in 1..Len(s) : s[i] \in Digits

\* position of the first "." of s, or 0
DotPos(s) ==
    IF \E i \in 1..Len(s) : s[i] = "."
    THEN CHOOSE i \in 1..Len(s) : s[i] = "." /\ \A j \in 1..(i - 1) : s[j] # "."
    ELSE 0

\* unsigned decimal: digits, optionally a "." and digits, at least one digit
ParseUnsigned(s) ==
    LET d    == DotPos(s)
        ip   == IF d = 0 THEN s ELSE SubSeq(s, 1, d - 1)
        fp   == IF d = 0 THEN <<>> ELSE SubSeq(s, d + 1, Len(s))
        good == /\ AllDigits(ip) /\ AllDigits(fp)
                /\ Len(ip) + Len(fp) > 0
    IN  IF good
        THEN [ok |-> TRUE,
              val |-> 10 * DigitsValue(ip) + (IF fp = <<>> THEN 0 ELSE DigitVal(fp[1]))]
        ELSE [ok |-> FALSE, val |-> 0]

\* str::parse::<f32> on decimal notation; val is in tenths
ParseF32(s) ==
    IF s = <<>> THEN [ok |-> FALSE, val |-> 0, err |-> "cannot parse float from empty string"]
    ELSE LET neg  == Head(s) = "-"
             body == IF Head(s) \in {"+", "-"} THEN Tail(s) ELSE s
             u    == ParseUnsigned(body)
         IN  IF u.ok
             THEN [ok |-> TRUE, val |-> IF neg THEN -u.val ELSE u.val, err |-> ""]
             ELSE [ok |-> FALSE, val |-> 0, err |-> "invalid float literal"]

\* Display for f32 (a value in tenths): no fractional part is printed for
\* a whole number
DisplayF32(v) ==
    LET a == IF v < 0 THEN -v ELSE v
        sign == IF v < 0 THEN "-" ELSE ""
    IN  IF a % 10 = 0
        THEN sign \o ToString(a \div 10)
        ELSE sign \o ToString(a \div 10) \o "." \o ToString(a % 10)

----------------------------------------------------------------------------
(* The external query tool *)

\* std::process::Output of one nvidia-smi run, or the spawn failure
SpawnFailed ==
    [spawned |-> FALSE, success |-> FALSE, utf8 |-> TRUE, stdout |-> <<>>, stderr |-> ""]

Exited(success, utf8, stdout, stderr) ==
    [spawned |-> TRUE, success |-> success, utf8 |-> utf8, stdout |-> stdout,
     stderr |-> stderr]

NoRun ==
    [spawned |-> FALSE, success |-> FALSE, utf8 |-> FALSE, stdout |-> <<>>, stderr |-> "not run"]

TempStdouts ==
    { <<"7", "2", "\n">>, <<"7", "0">>, <<"7", "0", ".", "1", "\n">>, <<"N", "/", "A", "\n">> }

LoadStdouts ==
    { <<"5", "5", "\n">>, <<"N", "/", "A", "\n">> }

ModelStdouts ==
    { <<"N", "V", "I", "D", "I", "A", " ", "X", "\n">> }

\* what a run of the tool can produce: no process, a non-zero exit (with
\* well-formed stdout), stdout that is not UTF-8, or a zero exit with text
ToolRuns(stdouts) ==
    {SpawnFailed}
      \cup { Exited(FALSE, TRUE, s, "NVIDIA-SMI has failed") : s \in stdouts }
      \cup { Exited(TRUE, FALSE, <<>>, "") }
      \cup { Exited(TRUE, TRUE, s, "") : s \in stdouts }

----------------------------------------------------------------------------
(* Results *)

OkF32(v) == [ok |-> TRUE, val |-> v, err |-> ""]

ErrF32(e) == [ok |-> FALSE, val |-> 0, err |-> e]

OkStr(t) == [ok |-> TRUE, val |-> t, err |-> ""]

ErrStr(e) == [ok |-> FALSE, val |-> "", err |-> e]

SpawnMsg == "Failed to execute command: No such file or directory (os error 2)"

StatusMsg(run) ==
    "Command failed with status: exit status: 1, stderr: " \o run.stderr

Utf8Msg == "Failed to parse output: invalid utf-8 sequence of 1 bytes from index 0"

get_gpu_temperature(run) ==
    IF ~run.spawned THEN ErrF32(SpawnMsg)
    ELSE IF ~run.success THEN ErrF32(StatusMsg(run))
    ELSE IF ~run.utf8 THEN ErrF32(Utf8Msg)
    ELSE LET p == ParseF32(Trim(run.stdout))
         IN  IF p.ok THEN OkF32(p.val)
             ELSE ErrF32("Failed to parse temperature: " \o p.err)

get_gpu_load(run) ==
    IF ~run.spawned THEN ErrF32(SpawnMsg)
    ELSE IF ~run.success THEN ErrF32(StatusMsg(run))
    ELSE IF ~run.utf8 THEN ErrF32(Utf8Msg)
    ELSE LET p == ParseF32(Trim(run.stdout))
         IN  IF p.ok THEN OkF32(p.val)
             ELSE ErrF32("Failed to parse load: " \o p.err)

get_gpu_model(run) ==
    IF ~run.spawned THEN ErrStr(SpawnMsg)
    ELSE IF ~run.success THEN ErrStr(StatusMsg(run))
    ELSE IF ~run.utf8 THEN ErrStr(Utf8Msg)
    ELSE OkStr(ToStr(Trim(run.stdout)))

----------------------------------------------------------------------------
(* Rendering *)

WarnThreshold == 700    \* 70.0 in tenths

\* bug: `temp >= 70.0`
IsHot_inclusive(t) == t >= WarnThreshold

\* `temp > 70.0`
IsHot(t) == t > WarnThreshold

\* bug: temp and load passed to format! in the wrong order
ReadingText_swapped(m, t, l) ==
    "GPU: " \o m \o " Temperature: " \o DisplayF32(l) \o " °C, Load: "
        \o DisplayF32(t) \o "%"

\* format!("GPU: {} Temperature: {} °C, Load: {}%", model, temp, load)
ReadingText(m, t, l) ==
    "GPU: " \o m \o " Temperature: " \o DisplayF32(t) \o " °C, Load: "
        \o DisplayF32(l) \o "%"

\* the line written by the Ok arm: "\r", then the text with the temperature
\* red when hot, and no newline
ReadingLine(m, t, l) ==
    [kind  |-> "reading",
     lead  |-> "\r",
     text  |-> ReadingText(m, t, l),
     style |-> IF IsHot(t) THEN "red" ELSE "plain"]

\* bug: a failed cycle keeps the last reading on screen
ErrorLine_stale(e) ==
    IF printed.kind = "reading" THEN printed
    ELSE [kind |-> "error", lead |-> "\r", text |-> "Error: " \o e, style |-> "plain"]

\* the line written by the Err arm
ErrorLine(e) ==
    [kind |-> "error", lead |-> "\r", text |-> "Error: " \o e, style |-> "plain"]

NoLine == [kind |-> "none", lead |-> "", text |-> "", style |-> "plain"]

FallbackLoad == 0

FallbackModel == "Unknown"

Unset == [set |-> FALSE, val |-> 0]

UnsetStr == [set |-> FALSE, val |-> ""]

NoTemp == [ok |-> FALSE, val |-> 0, err |-> "not queried"]

NoRuns == [temp |-> NoRun, load |-> NoRun, model |-> NoRun]

LogRec(level, msg) == [level |-> level, msg |-> msg]

----------------------------------------------------------------------------
(* Terminal input *)

KeyQ == [type |-> "Key", code |-> "q"]

KeyX == [type |-> "Key", code |-> "x"]

Resize == [type |-> "Resize", code |-> ""]

Events == {KeyQ, KeyX, Resize}

\* bug: any key event quits
IsQuit_any_key(ev) == ev.type = "Key"

\* `if let Event::Key(event) = .. { if event.code == KeyCode::Char('q') {`
IsQuit(ev) == ev.type = "Key" /\ ev.code = "q"

----------------------------------------------------------------------------
(* main *)

Init ==
    /\ pc = "init_logger"
    /\ raw = FALSE
    /\ rawEver = FALSE
    /\ queue = <<>>
    /\ temp = NoTemp
    /\ load = Unset
    /\ model = UnsetStr
    /\ printed = NoLine
    /\ log = <<>>
    /\ trace = <<>>
    /\ runs = NoRuns
    /\ prevKind = "none"
    /\ exitStatus = "running"
    /\ exitCause = "none"

\* the process ends: `?` returns Err from main (io_error), a panic unwinds
\* out of main (panic), or main returns Ok(()) (success).  Nothing is run
\* on the way out: main owns no guard that restores the terminal.
Exit(status, cause) ==
    /\ pc' = "exited"
    /\ exitStatus' = status
    /\ exitCause' = cause

\* a key press or a resize reaches the terminal while the process runs
EventArrives ==
    /\ pc # "exited"
    /\ Len(queue) < MaxQueue
    /\ \E ev \in Events : queue' = Append(queue, ev)
    /\ UNCHANGED <<pc, raw, rawEver, temp, load, model, printed, log, trace,
                   runs, prevKind, exitStatus, exitCause>>

\* init_logger(): File::create(..).unwrap() panics when the log file cannot
\* be created
InitLogger ==
    /\ pc = "init_logger"
    /\ \E created \in BOOLEAN :
          IF created
          THEN /\ pc' = "enable_raw"
               /\ UNCHANGED <<exitStatus, exitCause>>
          ELSE Exit("panic", "init_logger")
    /\ UNCHANGED <<raw, rawEver, queue, temp, load, model, printed, log, trace,
                   runs, prevKind>>

\* terminal::enable_raw_mode()?
EnableRawMode ==
    /\ pc = "enable_raw"
    /\ \E io \in BOOLEAN :
          IF io
          THEN /\ raw' = TRUE
               /\ rawEver' = TRUE
               /\ pc' = "clear"
               /\ UNCHANGED <<exitStatus, exitCause>>
          ELSE /\ Exit("io_error", "enable_raw_mode")
               /\ UNCHANGED <<raw, rawEver>>
    /\ UNCHANGED <<queue, temp, load, model, printed, log, trace, runs, prevKind>>

\* stdout.execute(Clear(All))?; info!("Starting gpu_temp_reader")
ClearScreen ==
    /\ pc = "clear"
    /\ \E io \in BOOLEAN :
          IF io
          THEN /\ pc' = "temp"
               /\ log' = <<LogRec("INFO", "Starting gpu_temp_reader")>>
               /\ UNCHANGED <<exitStatus, exitCause>>
          ELSE /\ Exit("io_error", "clear")
               /\ UNCHANGED log
    /\ UNCHANGED <<raw, rawEver, queue, temp, load, model, printed, trace,
                   runs, prevKind>>

\* bug: the load and model queries are not skipped after a failed temperature
AfterTemperature_always_load(r) == "load"

\* bug: a failed temperature query is propagated out of main
AfterTemperature_abort(r) == IF r.ok THEN "load" ELSE "exited"

\* where `match get_gpu_temperature()` continues
AfterTemperature(r) == IF r.ok THEN "load" ELSE "render"

\* top of the loop: match get_gpu_temperature(); the Err arm logs the error
QueryTemperature ==
    /\ pc = "temp"
    /\ \E run \in ToolRuns(TempStdouts) :
          LET r == get_gpu_temperature(run)
          IN  /\ temp' = r
              /\ runs' = [NoRuns EXCEPT !.temp = run]
              /\ pc' = AfterTemperature(r)
              /\ log' = IF r.ok THEN <<>>
                        ELSE <<LogRec("ERROR", "Failed to get GPU temperature: " \o r.err)>>
    /\ load' = Unset
    /\ model' = UnsetStr
    /\ trace' = <<"temp">>
    /\ UNCHANGED <<raw, rawEver, queue, printed, prevKind, exitStatus, exitCause>>

\* `match get_gpu_load() { Ok(l) => l, Err(e) => { error!(..); 0.0 } }`
LoadOrFallback(r) == IF r.ok THEN r.val ELSE FallbackLoad

QueryLoad ==
    /\ pc = "load"
    /\ \E run \in ToolRuns(LoadStdouts) :
          LET r == get_gpu_load(run)
          IN  /\ load' = [set |-> TRUE, val |-> LoadOrFallback(r)]
              /\ runs' = [runs EXCEPT !.load = run]
              /\ log' = IF r.ok THEN log
                        ELSE Append(log, LogRec("ERROR", "Failed to get GPU load: " \o r.err))
    /\ pc' = "model"
    /\ trace' = Append(trace, "load")
    /\ UNCHANGED <<raw, rawEver, queue, temp, model, printed, prevKind,
                   exitStatus, exitCause>>

\* bug: the Err arm yields the empty result value instead of "Unknown"
ModelOrFallback_unchecked(r) == r.val

\* `match get_gpu_model() { Ok(m) => m, Err(e) => { error!(..); "Unknown" } }`
ModelOrFallback(r) == IF r.ok THEN r.val ELSE FallbackModel

\* the model query and the info! summary that follows it
QueryModel ==
    /\ pc = "model"
    /\ \E run \in ToolRuns(ModelStdouts) :
          LET r == get_gpu_model(run)
              m == ModelOrFallback(r)
              l == IF r.ok THEN log
                   ELSE Append(log, LogRec("ERROR", "Failed to get GPU model: " \o r.err))
          IN  /\ model' = [set |-> TRUE, val |-> m]
              /\ runs' = [runs EXCEPT !.model = run]
              /\ log' = Append(l, LogRec("INFO", ReadingText(m, temp.val, load.val)))
    /\ pc' = "render"
    /\ trace' = Append(trace, "model")
    /\ UNCHANGED <<raw, rawEver, queue, temp, load, printed, prevKind,
                   exitStatus, exitCause>>

\* the line the current arm of the match prints
CurrentLine ==
    IF temp.ok THEN ReadingLine(model.val, temp.val, load.val)
    ELSE ErrorLine(temp.err)

\* bug: the loop `continue`s after the render, skipping the input wait
AfterRender_skip_wait == "temp"

\* where main continues after a line was printed and flushed
AfterRender == "poll"

\* stdout.execute(..)?; stdout.flush()? of the arm taken: the line reaches
\* the terminal unless execute fails
Render ==
    /\ pc = "render"
    /\ \E io \in {"ok", "execute_failed", "flush_failed"} :
          /\ printed' = IF io = "execute_failed" THEN printed ELSE CurrentLine
          /\ IF io = "ok"
             THEN /\ pc' = AfterRender
                  /\ UNCHANGED <<exitStatus, exitCause>>
             ELSE Exit("io_error", "render")
    /\ trace' = Append(trace, "render")
    /\ UNCHANGED <<raw, rawEver, queue, temp, load, model, log, runs, prevKind>>

\* bug: anything but a quit key also leaves the loop
AfterWait_break == "disable_raw"

\* where the loop continues when the input wait did not read a quit key
AfterWait == "temp"

\* event::poll(Duration::from_secs(1))?: true as soon as an event is
\* available, false when none arrived within the second
Poll ==
    /\ pc = "poll"
    /\ trace' = Append(trace, "wait")
    /\ \/ /\ queue # <<>>
          /\ pc' = "read"
          /\ UNCHANGED <<prevKind, exitStatus, exitCause>>
       \/ /\ queue = <<>>
          /\ pc' = AfterWait
          /\ prevKind' = printed.kind
          /\ UNCHANGED <<exitStatus, exitCause>>
       \/ /\ Exit("io_error", "poll")
          /\ UNCHANGED prevKind
    /\ UNCHANGED <<raw, rawEver, queue, temp, load, model, printed, log, runs>>

\* event::read()? takes the oldest event; a key event with code Char('q')
\* breaks out of the loop
Read ==
    /\ pc = "read"
    /\ queue # <<>>
    /\ \/ /\ queue' = Tail(queue)
          /\ IF IsQuit(Head(queue))
             THEN pc' = "disable_raw" /\ UNCHANGED prevKind
             ELSE pc' = AfterWait /\ prevKind' = printed.kind
          /\ UNCHANGED <<exitStatus, exitCause>>
       \/ /\ Exit("io_error", "read")
          /\ UNCHANGED <<queue, prevKind>>
    /\ UNCHANGED <<raw, rawEver, temp, load, model, printed, log, trace, runs>>

\* terminal::disable_raw_mode()?
DisableRawMode ==
    /\ pc = "disable_raw"
    /\ \E io \in BOOLEAN :
          IF io
          THEN /\ raw' = FALSE
               /\ pc' = "println"
               /\ UNCHANGED <<exitStatus, exitCause>>
          ELSE /\ Exit("io_error", "disable_raw_mode")
               /\ UNCHANGED raw
    /\ UNCHANGED <<rawEver, queue, temp, load, model, printed, log, trace,
                   runs, prevKind>>

\* println!("\nProgram terminated.") panics when stdout cannot be written;
\* info!("Exiting gpu_temp_reader"); Ok(())
Terminate ==
    /\ pc = "println"
    /\ \E io \in BOOLEAN :
          IF io
          THEN /\ printed' = [kind |-> "terminated", lead |-> "\n",
                              text |-> "Program terminated.", style |-> "plain"]
               /\ log' = Append(log, LogRec("INFO", "Exiting gpu_temp_reader"))
               /\ Exit("success", "quit")
          ELSE /\ Exit("panic", "println")
               /\ UNCHANGED <<printed, log>>
    /\ UNCHANGED <<raw, rawEver, queue, temp, load, model, trace, runs, prevKind>>

Next ==
    \/ EventArrives
    \/ InitLogger
    \/ EnableRawMode
    \/ ClearScreen
    \/ QueryTemperature
    \/ QueryLoad
    \/ QueryModel
    \/ Render
    \/ Poll
    \/ Read
    \/ DisableRawMode
    \/ Terminate

Spec == Init /\ [][Next]_vars

TypeOK ==
    /\ pc \in {"init_logger", "enable_raw", "clear", "temp", "load", "model",
               "render", "poll", "read", "disable_raw", "println", "exited"}
    /\ raw \in BOOLEAN /\ rawEver \in BOOLEAN
    /\ Len(queue) <= MaxQueue
    /\ exitStatus \in {"running", "success", "io_error", "panic"}

----------------------------------------------------------------------------
(* Properties *)

LoopPcs == {"temp", "load", "model", "render", "poll", "read"}

\* the render of the current cycle has completed and nothing was printed since
Rendered == pc \in {"poll", "read", "disable_raw", "println"}

NotANumber == <<"N", "/", "A", "\n">>

\* the four failure kinds of a query, read off the tool run itself
RunFailed(run) == ~run.spawned \/ ~run.success \/ ~run.utf8

TempRunFails == RunFailed(runs.temp) \/ runs.temp.stdout = NotANumber

LoadRunFails == RunFailed(runs.load) \/ runs.load.stdout = NotANumber

ModelRunFails == RunFailed(runs.model)

\* what the line should show for each tool output of the model
ShownTemp ==
    CASE runs.temp.stdout = <<"7", "2", "\n">> -> "72"
      [] runs.temp.stdout = <<"7", "0">> -> "70"
      [] runs.temp.stdout = <<"7", "0", ".", "1", "\n">> -> "70.1"
      [] OTHER -> "?"

ShownLoad(fallback) ==
    IF LoadRunFails THEN fallback
    ELSE IF runs.load.stdout = <<"5", "5", "\n">> THEN "55" ELSE "?"

ShownModel ==
    IF ModelRunFails THEN "Unknown"
    ELSE IF runs.model.stdout = <<"N", "V", "I", "D", "I", "A", " ", "X", "\n">>
         THEN "NVIDIA X" ELSE "?"

ExpectedText(fallback) ==
    "GPU: " \o ShownModel \o " Temperature: " \o ShownTemp \o " °C, Load: "
        \o ShownLoad(fallback) \o "%"

Count(seq, x) == Cardinality({i \in 1..Len(seq) : seq[i] = x})

IsPrefix(a, b) == Len(a) <= Len(b) /\ SubSeq(b, 1, Len(a)) = a

FullCycle == <<"temp", "load", "model", "render", "wait">>

ErrorCycle == <<"temp", "render", "wait">>

\* C1: in a cycle whose temperature query fails, for any of the four failure
\* kinds, neither the load nor the model query is invoked, the failure is
\* logged, and the line rendered by the cycle is the error line.
C1_TempFailureSkipsQueries ==
    (trace # <<>> /\ TempRunFails) =>
        /\ ~temp.ok
        /\ pc \notin {"load", "model"}
        /\ runs.load = NoRun /\ runs.model = NoRun
        /\ Count(trace, "load") = 0 /\ Count(trace, "model") = 0
        /\ log[1].level = "ERROR"
        /\ Rendered => /\ printed.kind = "error"
                       /\ printed.text = "Error: " \o temp.err

C1_Witness ==
    /\ pc = "poll" /\ TempRunFails /\ runs.temp.stdout = NotANumber
    /\ runs.temp.success /\ printed.kind = "error"

\* C2 (as amended): in a cycle whose temperature query succeeds, the load and
\* the model query are both invoked whatever the other returns, a reading
\* line is rendered, a failed load shows as the fallback value 0.0 (printed
\* "0"), a failed model shows as "Unknown", and the other fields show the
\* values the tool returned.
C2_FailuresAbsorbed ==
    (Rendered /\ ~TempRunFails) =>
        /\ runs.load # NoRun /\ runs.model # NoRun
        /\ trace[2] = "load" /\ trace[3] = "model"
        /\ printed.kind = "reading"
        /\ LoadRunFails => load.val = 0
        /\ ModelRunFails => model.val = "Unknown"
        /\ printed.text = ExpectedText("0")

C2_Witness ==
    /\ pc = "poll" /\ ~TempRunFails /\ LoadRunFails /\ ~ModelRunFails
    /\ printed.text = "GPU: NVIDIA X Temperature: 72 °C, Load: 0%"

\* C2 as stated: the line of a cycle whose load query failed shows the load
\* as "0.0".
C2_Original ==
    (Rendered /\ ~TempRunFails) =>
        /\ printed.kind = "reading"
        /\ printed.text = ExpectedText("0.0")

\* C3: the rendered reading is in warning style exactly when the temperature
\* is strictly greater than 70.0; 70.0 itself is plain.
C3_WarningIffAbove70 ==
    (Rendered /\ temp.ok) =>
        /\ (printed.style = "red") <=> (temp.val > 700)
        /\ runs.temp.stdout = <<"7", "0">> => printed.style = "plain"
        /\ runs.temp.stdout = <<"7", "0", ".", "1", "\n">> => printed.style = "red"

C3_Witness ==
    /\ pc = "poll" /\ temp.ok /\ temp.val = 700 /\ printed.style = "plain"
    /\ printed.kind = "reading"

\* C4 (as amended): when the event read by the input wait is a q key, the
\* loop goes to termination with no further query or render; any other event
\* read, or a timeout, returns to the temperature query; once terminated no
\* query runs again.  The wait reads one event per cycle, so a q behind
\* other events is read in a later cycle.
C4_QuitWhenRead ==
    [][/\ (pc = "read" /\ pc' \notin {"read", "exited"}) =>
              IF Head(queue) = KeyQ
              THEN pc' = "disable_raw" /\ runs' = runs /\ printed' = printed
              ELSE pc' = "temp"
       /\ (pc = "poll" /\ queue = <<>> /\ pc' \notin {"poll", "exited"}) => pc' = "temp"
       /\ (pc \in {"disable_raw", "println", "exited"}) =>
              /\ pc' \in {"disable_raw", "println", "exited"}
              /\ runs' = runs
              /\ trace' = trace
      ]_vars

C4_Witness ==
    /\ pc = "disable_raw" /\ trace = FullCycle /\ queue = <<>>

\* C4 as stated: once a q key press is available to the input wait, no
\* further poll of the tool or render happens.
C4_Original ==
    [][(pc \in {"poll", "read"} /\ \E i \in 1..Len(queue) : queue[i] = KeyQ)
          => pc' # "temp"]_vars

\* C5: when the process has ended after raw mode was enabled, raw mode is
\* disabled, on every path.
C5_RawModeRestoredOnExit ==
    (pc = "exited" /\ rawEver) => ~raw

TerminalCalls ==
    {"enable_raw_mode", "clear", "render", "poll", "read", "disable_raw_mode", "println"}

\* C6 as stated: the process ends with success after a q-triggered
\* termination and with a failure status only because of a terminal I/O
\* failure.
C6_Original ==
    pc = "exited" =>
        \/ exitStatus = "success" /\ exitCause = "quit"
        \/ exitStatus \in {"io_error", "panic"} /\ exitCause \in TerminalCalls

\* C6 (as amended): the process ends with success only after a q-triggered
\* termination, ends with a failure status only because of a terminal I/O
\* failure or because the logger could not be initialised at startup, and
\* no step of a query ever ends the process.
C6_OnlyTerminalOrLoggerFatal ==
    /\ [](pc = "exited" =>
            \/ exitStatus = "success" /\ exitCause = "quit" /\ ~raw
            \/ exitStatus \in {"io_error", "panic"} /\ exitCause \in TerminalCalls
            \/ exitStatus = "panic" /\ exitCause = "init_logger" /\ ~rawEver)
    /\ [][(pc \in {"temp", "load", "model"}) => (pc' \in LoopPcs)]_vars

C6_Witness ==
    /\ pc = "exited" /\ exitStatus = "success" /\ prevKind = "error"

\* C7: the steps of a cycle happen in the order temperature, load, model,
\* render, input wait (temperature, render, input wait when the temperature
\* query fails), and a cycle has performed exactly one render and one input
\* wait when the next cycle's temperature query is reached.
C7_StrictlySequential ==
    /\ [](IsPrefix(trace, FullCycle) \/ IsPrefix(trace, ErrorCycle))
    /\ [][(pc \in LoopPcs /\ pc # "temp" /\ pc' = "temp") =>
             /\ trace' \in {FullCycle, ErrorCycle}
             /\ Count(trace', "render") = 1 /\ Count(trace', "wait") = 1]_vars

C7_Witness ==
    /\ pc = "temp" /\ trace = FullCycle /\ prevKind = "reading"

\* C8: with tool outputs "72", "55" and "NVIDIA X" the rendered line is
\* `GPU: NVIDIA X Temperature: 72 °C, Load: 55%` with the temperature in
\* warning style; in general the line is the model, temperature and load of
\* the same cycle in that format.
C8_RenderedText ==
    (Rendered /\ temp.ok) =>
        /\ printed.text = "GPU: " \o model.val \o " Temperature: "
                             \o DisplayF32(temp.val) \o " °C, Load: "
                             \o DisplayF32(load.val) \o "%"
        /\ ( /\ runs.temp = Exited(TRUE, TRUE, <<"7", "2", "\n">>, "")
             /\ runs.load = Exited(TRUE, TRUE, <<"5", "5", "\n">>, "")
             /\ runs.model = Exited(TRUE, TRUE, <<"N", "V", "I", "D", "I", "A", " ", "X", "\n">>, "") )
           => /\ printed.text = "GPU: NVIDIA X Temperature: 72 °C, Load: 55%"
              /\ printed.style = "red"
              /\ printed.lead = "\r"

C8_Witness ==
    /\ pc = "poll"
    /\ printed.text = "GPU: NVIDIA X Temperature: 72 °C, Load: 55%"
    /\ printed.style = "red"

\* C9: the loop is left for the code after it only by reading a q key in
\* the input wait; a query result, a timeout or another event never leaves
\* the loop, however many cycles have run (the only other way out of the
\* loop is a terminal I/O error ending the process).
C9_OnlyQuitStopsLoop ==
    [][(pc \in LoopPcs /\ pc' \notin LoopPcs) =>
          \/ pc = "read" /\ Head(queue) = KeyQ /\ pc' = "disable_raw"
          \/ /\ pc' = "exited" /\ exitStatus' = "io_error"
             /\ pc \in {"render", "poll", "read"}
      ]_vars

C9_Witness ==
    /\ pc = "disable_raw" /\ prevKind # "none"

\* C10: within a cycle each query is invoked at most once, and the line a
\* cycle renders is determined by that cycle's tool runs alone, whatever the
\* previous cycle rendered: the error line when the temperature run fails, a
\* reading line otherwise.
C10_CyclesIndependent ==
    /\ Count(trace, "temp") <= 1 /\ Count(trace, "load") <= 1
    /\ Count(trace, "model") <= 1
    /\ pc = "temp" => (temp = NoTemp \/ trace \in {FullCycle, ErrorCycle})
    /\ Rendered =>
          IF TempRunFails
          THEN /\ printed.kind = "error"
               /\ printed.text = "Error: " \o get_gpu_temperature(runs.temp).err
          ELSE printed.kind = "reading" /\ printed.text = ExpectedText("0")

C10_Witness ==
    /\ pc = "poll" /\ prevKind = "error" /\ printed.kind = "reading"

====
